---- MODULE Spec2Model ----
(***************************************************************************)
(* Model of patsy/categorical.py: the C() tagging wrapper, the             *)
(* CategoricalSniffer level-discovery state machine and the                *)
(* categorical_to_int encoder.                                             *)
(*                                                                         *)
(* Python values are modelled as atoms (strings).  None is used both as a  *)
(* data value and as the "no contrast" marker, as in Python.  An optional  *)
(* level sequence (the `levels` attribute, which is None or a sequence) is *)
(* modelled as Absent (= None) or Given(L).                                *)
(*                                                                         *)
(* The value domain holds no integer 0 or 1, so Python's True == 1 and     *)
(* False == 0 never identify two distinct atoms; np.nan is one object, a   *)
(* dict finds it by identity.  The pandas.Series re-labelling of lines     *)
(* 344-345 does not change the codes and is left out.                      *)
(***************************************************************************)
EXTENDS Integers, Sequences, FiniteSets, TLC

\* ----------------------------------------------------------------- bounds
MaxLen == 2        \* longest data chunk
MaxLevels == 2     \* longest explicit / expected level sequence

\* ----------------------------------------------------------------- values
None == "None"
NaN == "NaN"
PyTrue == "True"
PyFalse == "False"
Unhashable == "{}"

Hashables == {PyFalse, PyTrue, "a", "b", None, NaN}
Values == Hashables \cup {Unhashable}
Booleans == {PyFalse, PyTrue}
Contrasts == {None, "FOO", "BAR"}

Absent == <<>>
Given(L) == <<L>>

SeqsUpTo(S, n) == UNION {[1..k -> S] : k \in 0..n}
Range(s) == {s[i] : i \in DOMAIN s}

\* ----------------------------------------------------------------- data
list(elems) == [tag |-> "list", elems |-> elems]
bool_ndarray(elems) == [tag |-> "bool_ndarray", elems |-> elems]
scalar(v) == [tag |-> "scalar", elems |-> <<v>>]
ndarray_2d == [tag |-> "ndarray_2d", elems |-> <<>>]

_CategoricalBox(data, contrast, levels) ==
    [tag |-> "box", data |-> data, contrast |-> contrast, levels |-> levels]

Categorical(labels, levels, attrs) ==
    [tag |-> "Categorical", labels |-> labels, levels |-> levels, attrs |-> attrs]

isBox(data) == data.tag = "box"

\* Faulty variant of C: a box is wrapped again instead of being unwrapped.
C_rewrap(data, contrast, levels) ==
    IF isBox(data)
    THEN _CategoricalBox(data,
                         IF contrast = None THEN data.contrast ELSE contrast,
                         IF levels = Absent THEN data.levels ELSE levels)
    ELSE _CategoricalBox(data, contrast, levels)

\* Lines 88-94.
C(data, contrast, levels) ==
    IF isBox(data)
    THEN _CategoricalBox(data.data,
                         IF contrast = None THEN data.contrast ELSE contrast,
                         IF levels = Absent THEN data.levels ELSE levels)
    ELSE _CategoricalBox(data, contrast, levels)

\* ------------------------------------------------------- NA policy
\* NAAction(NA_types=...).is_categorical_NA: NA_types is a subset of
\* {"None", "NaN"} naming the markers that count as missing.
NAPolicies == SUBSET {"None", "NaN"}

is_categorical_NA(NA_types, value) ==
    \/ "NaN" \in NA_types /\ value = NaN
    \/ "None" \in NA_types /\ value = None

\* ------------------------------------------------------- shape fix
\* _categorical_shape_fix: rank > 1 raises, a bare scalar becomes [data].
shape_error(data) == data.tag = "ndarray_2d"

_categorical_shape_fix(data) ==
    IF data.tag = "scalar" THEN list(data.elems) ELSE data

\* ------------------------------------------------------- encoder
returned(out) == [exc |-> "", msg |-> "", out |-> out]
raised(exc, msg) == [exc |-> exc, msg |-> msg, out |-> <<>>]

MaxOf(S) == CHOOSE m \in S : \A n \in S : n <= m

\* Faulty variant of level_to_int: indices counted from 1.
level_to_int_from_one(levels) ==
    [v \in Range(levels) |-> MaxOf({i \in DOMAIN levels : levels[i] = v})]

\* dict(zip(levels, range(len(levels)))): a repeated key keeps its last index.
level_to_int(levels) ==
    [v \in Range(levels) |-> MaxOf({i \in DOMAIN levels : levels[i] = v}) - 1]

\* The exception the loop body (lines 319-343) meets on one value, "" if none.
value_error(value, lti, NA_types) ==
    IF is_categorical_NA(NA_types, value) THEN ""
    ELSE IF value = Unhashable THEN "TypeError"
    ELSE IF value \notin DOMAIN lti THEN "KeyError"
    ELSE ""

\* Faulty variant of encode_value: the lookup is tried before the NA check.
encode_value_lookup_first(value, lti, NA_types) ==
    IF value \in DOMAIN lti THEN lti[value] ELSE -1

\* The code the loop body writes for a value that raises nothing.
encode_value(value, lti, NA_types) ==
    IF is_categorical_NA(NA_types, value) THEN -1 ELSE lti[value]

\* The per-element loop: the first element that fails decides the error.
general_path(elems, levels, NA_types) ==
    LET lti == level_to_int(levels)
        bad == {i \in DOMAIN elems : value_error(elems[i], lti, NA_types) # ""}
    IN  IF bad = {}
        THEN returned([i \in DOMAIN elems |-> encode_value(elems[i], lti, NA_types)])
        ELSE LET first == CHOOSE i \in bad : \A j \in bad : i <= j
             IN  IF value_error(elems[first], lti, NA_types) = "KeyError"
                 THEN raised("PatsyError", "does not match any of the expected levels")
                 ELSE raised("PatsyError", "encountered unhashable value")

astype_int(elems) == [i \in DOMAIN elems |-> IF elems[i] = PyTrue THEN 1 ELSE 0]

\* Lines 304-346: shape fix, lookup construction, boolean fast path, loop.
encode_raw(data0, levels, NA_types) ==
    IF shape_error(data0)
    THEN raised("PatsyError", "categorical data cannot be >1-dimensional")
    ELSE
    LET data == _categorical_shape_fix(data0) IN
    IF Unhashable \in Range(levels)
    THEN raised("PatsyError", "all items must be hashable")
    ELSE
    LET lti == level_to_int(levels) IN
    IF data.tag = "bool_ndarray"
    THEN IF PyFalse \notin DOMAIN lti THEN raised("KeyError", PyFalse)
         ELSE IF lti[PyFalse] # 0 THEN general_path(data.elems, levels, NA_types)
         ELSE IF PyTrue \notin DOMAIN lti THEN raised("KeyError", PyTrue)
         ELSE IF lti[PyTrue] # 1 THEN general_path(data.elems, levels, NA_types)
         ELSE returned(astype_int(data.elems))
    ELSE general_path(data.elems, levels, NA_types)

\* Faulty variant of categorical_to_int: declared levels compared as sets.
categorical_to_int_unordered(data, levels, NA_types) ==
    IF data.tag = "Categorical"
    THEN IF Range(data.levels) # Range(levels)
         THEN raised("PatsyError", "mismatching levels")
         ELSE returned(data.labels)
    ELSE IF isBox(data)
    THEN IF data.levels # Absent /\ Range(data.levels[1]) # Range(levels)
         THEN raised("PatsyError", "mismatching levels")
         ELSE encode_raw(data.data, levels, NA_types)
    ELSE encode_raw(data, levels, NA_types)

\* Lines 285-346.
categorical_to_int(data, levels, NA_types) ==
    IF data.tag = "Categorical"
    THEN IF data.levels # levels
         THEN raised("PatsyError", "mismatching levels")
         ELSE returned(data.labels)
    ELSE IF isBox(data)
    THEN IF data.levels # Absent /\ data.levels[1] # levels
         THEN raised("PatsyError", "mismatching levels")
         ELSE encode_raw(data.data, levels, NA_types)
    ELSE encode_raw(data, levels, NA_types)

\* ------------------------------------------------------- sniffer
\* levels.sort(key=SortAnythingKey): a fixed total order, numbers
\* (booleans included) first, then the other kinds.
SortAnythingKey(v) ==
    CASE v = PyFalse -> 0
      [] v = PyTrue -> 1
      [] v = NaN -> 2
      [] v = None -> 3
      [] v = "a" -> 4
      [] v = "b" -> 5
      [] OTHER -> 6

RECURSIVE sorted(_)
sorted(S) ==
    IF S = {} THEN <<>>
    ELSE LET m == CHOOSE x \in S : \A y \in S : SortAnythingKey(x) <= SortAnythingKey(y)
         IN  <<m>> \o sorted(S \ {m})

\* Faulty variant of finalized_levels: explicit levels are sorted as well.
finalized_levels_sorted(_levels, _level_set) ==
    IF _levels = Absent THEN sorted(_level_set) ELSE sorted(Range(_levels[1]))

\* What levels_contrast returns as levels, and what it memoizes (lines 161-165).
finalized_levels(_levels, _level_set) ==
    IF _levels = Absent THEN sorted(_level_set) ELSE _levels[1]

\* hasattr(data, "contrast"): every box has the attribute, a Categorical
\* only when somebody attached one.
has_contrast(data) ==
    isBox(data) \/ (data.tag = "Categorical" /\ data.attrs # Absent)

contrast_of(data) == IF isBox(data) THEN data.contrast ELSE data.attrs[1]

\* Line 194-198 for one non-missing value.
scan_add(value) == IF value \in Booleans THEN Booleans ELSE {value}

\* Positions the loop of lines 191-202 visits before it raises (all of them
\* when it does not raise).
scan_failed(elems, NA_types) ==
    \E i \in DOMAIN elems :
        elems[i] = Unhashable /\ ~is_categorical_NA(NA_types, elems[i])

scanned(elems, NA_types) ==
    {i \in DOMAIN elems :
        \A j \in 1..i : ~(elems[j] = Unhashable /\ ~is_categorical_NA(NA_types, elems[j]))}

scan(_level_set, elems, NA_types) ==
    _level_set \cup UNION {scan_add(elems[i]) :
        i \in {k \in scanned(elems, NA_types) : ~is_categorical_NA(NA_types, elems[k])}}

\* Line 186: what the boolean fast path leaves in _level_set.
fastpath_level_set(_level_set) == Booleans

\* Line 205.
confident(_level_set) == _level_set = Booleans

VARIABLES
    c_obj, c_call,                              \* C()
    e_data, e_levels, e_NA, e_result,           \* categorical_to_int
    _NA_action, _contrast, _levels, _level_set, \* CategoricalSniffer
    last, final, seen, explicit, clean          \* history of the sniffer's calls

c_vars == <<c_obj, c_call>>
e_vars == <<e_data, e_levels, e_NA, e_result>>
s_vars == <<_NA_action, _contrast, _levels, _level_set, last, final, seen, explicit, clean>>
vars == <<c_vars, e_vars, s_vars>>

\* ------------------------------------------------------- inputs
RawData(V) ==
    {list(e) : e \in SeqsUpTo(V, MaxLen)}
      \cup {bool_ndarray(e) : e \in SeqsUpTo(Booleans, MaxLen)}
      \cup {scalar(v) : v \in V}
      \cup {ndarray_2d}

ExplicitLevels == SeqsUpTo({"a", "b"}, MaxLevels)
OptLevels == {Absent} \cup {Given(L) : L \in ExplicitLevels}

\* pandas.Categorical: distinct levels, labels index them, -1 marks NA.
Categoricals ==
    {Categorical(lab, L, at) :
        L \in {<<"a", "b">>, <<"b", "a">>, <<"a">>},
        lab \in SeqsUpTo({-1, 0}, MaxLen),
        at \in {Absent, Given("FOO")}}

\* ------------------------------------------------------- idle parts
c_idle == [done |-> FALSE, data |-> list(<<>>), contrast |-> None, levels |-> Absent]
InitCIdle == c_obj = list(<<>>) /\ c_call = c_idle
InitEIdle ==
    /\ e_data = list(<<>>) /\ e_levels = <<>> /\ e_NA = {}
    /\ e_result = [done |-> FALSE, res |-> returned(<<>>)]
InitSIdle ==
    /\ _NA_action = {} /\ _contrast = None /\ _levels = Absent /\ _level_set = {}
    /\ last = [op |-> "init", path |-> "", exc |-> "", ret |-> FALSE]
    /\ final = Absent /\ seen = {} /\ explicit = Absent /\ clean = TRUE

\* ------------------------------------------------------- C()
CData == {list(e) : e \in SeqsUpTo({"a", "b"}, MaxLen)} \cup {scalar("a"), ndarray_2d}

InitC ==
    /\ c_obj \in CData
    /\ c_call = [done |-> FALSE, data |-> c_obj, contrast |-> None, levels |-> Absent]
    /\ InitEIdle /\ InitSIdle

CallC(contrast, levels) ==
    /\ c_obj' = C(c_obj, contrast, levels)
    /\ c_call' = [done |-> TRUE, data |-> c_obj, contrast |-> contrast, levels |-> levels]
    /\ UNCHANGED <<e_vars, s_vars>>

NextC == \E contrast \in Contrasts, levels \in OptLevels : CallC(contrast, levels)

SpecC == InitC /\ [][NextC]_vars

\* ------------------------------------------------------- categorical_to_int
EncLevels == SeqsUpTo({PyFalse, PyTrue, "a", "b", None, Unhashable}, MaxLevels)

EncBoxes ==
    {_CategoricalBox(d, None, l) :
        d \in {list(e) : e \in SeqsUpTo({"a", "b", None}, MaxLen)}
                \cup {bool_ndarray(<<PyTrue, PyFalse>>), scalar("b"), ndarray_2d},
        l \in OptLevels}

EncData == RawData(Values) \cup EncBoxes \cup Categoricals

InitEncode ==
    /\ e_data \in EncData
    /\ e_levels \in EncLevels
    /\ e_NA \in NAPolicies
    /\ e_result = [done |-> FALSE, res |-> returned(<<>>)]
    /\ InitCIdle /\ InitSIdle

Encode ==
    /\ ~e_result.done
    /\ e_result' = [done |-> TRUE, res |-> categorical_to_int(e_data, e_levels, e_NA)]
    /\ UNCHANGED <<e_data, e_levels, e_NA, c_vars, s_vars>>

NextEncode == Encode

SpecEncode == InitEncode /\ [][NextEncode]_vars

\* ------------------------------------------------------- CategoricalSniffer
\* The sniffer is exercised with None as the only missing-value marker.
SniffValues == {PyFalse, PyTrue, "a", None, Unhashable}
SniffPolicies == SUBSET {"None"}

SniffBoxes ==
    {_CategoricalBox(d, c, Absent) :
        d \in {list(<<"a", PyTrue>>), list(<<None>>), bool_ndarray(<<PyTrue, PyFalse>>)},
        c \in {None, "FOO"}}
    \cup {_CategoricalBox(list(<<"a">>), c, Given(L)) :
        c \in {None, "FOO"}, L \in ExplicitLevels}

SniffCategoricals ==
    {Categorical(<<0, -1>>, L, at) :
        L \in {<<"a", "b">>, <<"b", "a">>}, at \in {Absent, Given("FOO")}}

SniffData ==
    {list(e) : e \in SeqsUpTo(SniffValues, MaxLen)}
      \cup {bool_ndarray(<<PyTrue, PyFalse>>), scalar("a"), scalar(PyTrue), ndarray_2d}
      \cup SniffBoxes \cup SniffCategoricals

Init ==
    /\ _NA_action \in SniffPolicies
    /\ _contrast = None
    /\ _levels = Absent
    /\ _level_set = {}
    /\ last = [op |-> "init", path |-> "", exc |-> "", ret |-> FALSE]
    /\ final = Absent /\ seen = {} /\ explicit = Absent /\ clean = TRUE
    /\ InitCIdle /\ InitEIdle

\* sniff, lines 171-179: an authoritative level list is stored as it is.
SniffExplicit(data) ==
    /\ \/ data.tag = "Categorical"
       \/ isBox(data) /\ data.levels # Absent
    /\ LET declared == IF isBox(data) THEN data.levels[1] ELSE data.levels
       IN  /\ _levels' = Given(declared)
           /\ explicit' = Given(declared)
    /\ _contrast' = IF has_contrast(data) THEN contrast_of(data) ELSE _contrast
    /\ last' = [op |-> "sniff", path |-> "explicit", exc |-> "", ret |-> TRUE]
    /\ clean' = FALSE
    /\ UNCHANGED <<_level_set, seen>>

\* sniff, lines 180-205: a plain chunk, or a box without levels (unboxed).
SniffPlain(data0) ==
    /\ data0.tag # "Categorical"
    /\ isBox(data0) => data0.levels = Absent
    /\ _contrast' = IF has_contrast(data0) THEN contrast_of(data0) ELSE _contrast
    /\ LET data == IF isBox(data0) THEN data0.data ELSE data0 IN
       IF data.tag = "bool_ndarray"
       THEN /\ _level_set' = fastpath_level_set(_level_set)
            /\ seen' = seen \cup Booleans
            /\ last' = [op |-> "sniff", path |-> "fast", exc |-> "", ret |-> TRUE]
            /\ UNCHANGED clean
       ELSE IF shape_error(data)
       THEN /\ last' = [op |-> "sniff", path |-> "shape", exc |-> "PatsyError", ret |-> FALSE]
            /\ clean' = FALSE
            /\ UNCHANGED <<_level_set, seen>>
       ELSE LET elems == _categorical_shape_fix(data).elems IN
            /\ _level_set' = scan(_level_set, elems, _NA_action)
            /\ seen' = scan(seen, elems, _NA_action)
            /\ IF scan_failed(elems, _NA_action)
               THEN /\ last' = [op |-> "sniff", path |-> "scan", exc |-> "PatsyError",
                                ret |-> FALSE]
                    /\ clean' = FALSE
               ELSE /\ last' = [op |-> "sniff", path |-> "scan", exc |-> "",
                                ret |-> confident(_level_set')]
                    /\ UNCHANGED clean
    /\ UNCHANGED <<_levels, explicit>>

Sniff(data) ==
    /\ SniffExplicit(data) \/ SniffPlain(data)
    /\ UNCHANGED <<_NA_action, final, c_vars, e_vars>>

levels_contrast ==
    /\ _levels' = Given(finalized_levels(_levels, _level_set))
    /\ final' = Given(<<finalized_levels(_levels, _level_set), _contrast>>)
    /\ last' = [op |-> "levels_contrast", path |-> "", exc |-> "", ret |-> FALSE]
    /\ UNCHANGED <<_NA_action, _contrast, _level_set, seen, explicit, clean, c_vars, e_vars>>

Next ==
    \/ \E data \in SniffData : Sniff(data)
    \/ levels_contrast

Spec == Init /\ [][Next]_vars

\* ======================================================= properties

\* The elements categorical_to_int iterates over once a box is unwrapped and
\* a scalar is coerced to one dimension.
unboxed(data) == IF isBox(data) THEN data.data ELSE data
elements(data) == _categorical_shape_fix(unboxed(data)).elems

succeeded == e_result.done /\ e_result.res.exc = ""

\* The call took the boolean shortcut of lines 314-316.
took_fastpath ==
    /\ unboxed(e_data).tag = "bool_ndarray"
    /\ Len(e_levels) >= 2 /\ PyFalse \in Range(e_levels) /\ PyTrue \in Range(e_levels)
    /\ level_to_int(e_levels)[PyFalse] = 0 /\ level_to_int(e_levels)[PyTrue] = 1

\* C1: round trip.  When categorical_to_int succeeds on a sequence, a box or
\* a scalar, every element the NA policy does not classify as missing gets a
\* code c with 0 <= c < len(levels) and levels[c] equal to that element.
C1_RoundTrip ==
    (succeeded /\ e_data.tag # "Categorical") =>
        LET codes == e_result.res.out
            elems == elements(e_data)
        IN  \A i \in DOMAIN elems :
                ~is_categorical_NA(e_NA, elems[i]) =>
                    /\ i \in DOMAIN codes
                    /\ codes[i] >= 0 /\ codes[i] < Len(e_levels)
                    /\ e_levels[codes[i] + 1] = elems[i]

C1_Witness ==
    /\ succeeded
    /\ e_data = list(<<"b", "a">>)
    /\ e_levels = <<"a", "b">>
    /\ e_result.res.out = <<1, 0>>

\* C2: missing-value coding on the per-element path.  A successful call
\* returns one code per element, and the code is -1 exactly where the NA
\* policy classifies the element as missing, also when the missing value is
\* one of the levels.
C2_MissingIsMinusOne ==
    (succeeded /\ e_data.tag # "Categorical" /\ ~took_fastpath) =>
        LET codes == e_result.res.out
            elems == elements(e_data)
        IN  /\ Len(codes) = Len(elems)
            /\ \A i \in DOMAIN elems :
                   codes[i] = -1 <=> is_categorical_NA(e_NA, elems[i])

C2_Witness ==
    /\ succeeded
    /\ e_data = list(<<None, "a">>)
    /\ e_levels = <<"a", None>>
    /\ e_NA = {"None"}
    /\ e_result.res.out = <<-1, 0>>

\* C3: declared levels must equal the expected levels position for
\* position.  A Categorical, or a box with explicit levels, whose declared
\* sequence differs from the expected tuple fails with "mismatching levels"
\* and returns no codes; when the two are equal the call does not fail that
\* way, and a box is encoded exactly as its unwrapped data.
declares_levels(data) ==
    data.tag = "Categorical" \/ (isBox(data) /\ data.levels # Absent)
declared_levels(data) == IF isBox(data) THEN data.levels[1] ELSE data.levels

C3_LevelMismatch ==
    (e_result.done /\ declares_levels(e_data)) =>
        IF declared_levels(e_data) # e_levels
        THEN e_result.res = raised("PatsyError", "mismatching levels")
        ELSE /\ e_result.res.msg # "mismatching levels"
             /\ isBox(e_data) =>
                    e_result.res = categorical_to_int(e_data.data, e_levels, e_NA)

C3_Witness ==
    /\ e_result.done
    /\ isBox(e_data)
    /\ e_data.levels = Given(<<"a", "b">>)
    /\ e_levels = <<"b", "a">>
    /\ e_result.res.msg = "mismatching levels"

\* C4: boolean fast-path equivalence.  On a homogeneously boolean array the
\* encoder's outcome (codes, or the kind of failure) is the outcome of the
\* per-element path on the same elements.
C4_FastPathEquivalence ==
    (e_result.done /\ e_data.tag = "bool_ndarray") =>
        e_result.res = categorical_to_int(list(e_data.elems), e_levels, e_NA)

\* C5: box composition.  The data of a box built by C is never a box; C of a
\* box keeps its data and overrides contrast and levels independently, each
\* only when the argument is not None; C with no overrides returns an equal
\* box, and C(C(x)) equals C(x).
C5_BoxComposition ==
    /\ isBox(c_obj) => ~isBox(c_obj.data)
    /\ (c_call.done /\ isBox(c_call.data)) =>
          /\ c_obj.data = c_call.data.data
          /\ c_obj.contrast =
                IF c_call.contrast # None THEN c_call.contrast ELSE c_call.data.contrast
          /\ c_obj.levels =
                IF c_call.levels # Absent THEN c_call.levels ELSE c_call.data.levels
    /\ (c_call.done /\ isBox(c_call.data) /\ c_call.contrast = None
            /\ c_call.levels = Absent) => c_obj = c_call.data
    /\ C(C(c_obj, None, Absent), None, Absent) = C(c_obj, None, Absent)

C5_Witness ==
    /\ c_call.done
    /\ isBox(c_call.data)
    /\ c_call.data.contrast = "FOO" /\ c_call.data.levels = Given(<<"b", "a">>)
    /\ c_call.contrast = "BAR" /\ c_call.levels = Absent
    /\ c_obj.contrast = "BAR" /\ c_obj.levels = Given(<<"b", "a">>)

\* C6: explicit levels are authoritative.  Sniffing a Categorical or a box
\* with explicit levels L returns true, and levels_contrast afterwards
\* returns L in the declared order, whatever chunks without explicit levels
\* were sniffed before or after.
C6_ExplicitLevelsAuthoritative ==
    /\ (last.op = "sniff" /\ last.path = "explicit") => (last.ret /\ last.exc = "")
    /\ (last.op = "levels_contrast" /\ explicit # Absent) => final[1][1] = explicit[1]

C6_Witness ==
    /\ last.op = "levels_contrast"
    /\ explicit = Given(<<"b", "a">>)
    /\ final[1][1] = <<"b", "a">>
    /\ "a" \in seen /\ PyTrue \in seen

\* C7: level discovery is the union over all chunks.  After successful
\* sniffs of chunks without explicit levels, the values returned by
\* levels_contrast are exactly the non-missing values of all chunks, false
\* and true both included once any boolean was seen.
C7_LevelsAreUnion ==
    (last.op = "levels_contrast" /\ clean) => Range(final[1][1]) = seen

\* C8: finalization is frozen.  Every levels_contrast call after the first
\* returns the pair the previous one returned, whatever was sniffed in
\* between.
C8_Frozen ==
    [][(final # Absent /\ final' # Absent) => final' = final]_vars

\* C9: on the scan path sniff returns true exactly when the levels
\* accumulated over all sniff calls so far are {false, true}.
C9_ConfidentIffBooleans ==
    (last.op = "sniff" /\ last.path = "scan" /\ last.exc = "") =>
        (last.ret <=> seen = Booleans)

\* C10: the finalized levels contain no value twice.
C10_DistinctLevels ==
    last.op = "levels_contrast" =>
        \A i, j \in DOMAIN final[1][1] :
            final[1][1][i] = final[1][1][j] => i = j
====
